---- MODULE Spec2Model ----
(***************************************************************************)
(* Option reconciliation of exa (src/options.rs): Options::getopts and the *)
(* deduce functions it drives, FileFilter::sort_files, Columns::for_dir.   *)
(***************************************************************************)
EXTENDS Integers, Sequences, FiniteSets, TLC

VARIABLES
    feature_git,     \* cfg!(feature="git"): fixed by the build
    xattr_ENABLED,   \* xattr::ENABLED: fixed by the platform
    dimensions,      \* what term::dimensions() returns: None or Some(<<w, h>>)
    args,            \* the options and free arguments given on the command line
    pc,              \* "start" before Options::getopts has run, "done" after
    matches,         \* getopts local: outcome of opts.parse(args)
    dir_action,      \* getopts local: outcome of DirAction::deduce, once reached
    view,            \* getopts local: outcome of View::deduce, once reached
    result,          \* what Options::getopts returned
    file_filter,     \* the FileFilter sort_files is called on
    files,           \* the Vec<File> sort_files works on, in place
    before,          \* files as they were when the latest call on them began
    calls,           \* how many times in a row sort_files has just run on files
    self_columns,    \* the Columns for_dir is called on
    dir,             \* for_dir's argument: None, or Some(whether the Dir has a git repo)
    table            \* the Vec<Column> for_dir returned

optionVars == <<dimensions, args, pc, matches, dir_action, view, result>>
sortVars == <<file_filter, files, before, calls>>
columnVars == <<self_columns, dir, table>>
vars == <<feature_git, xattr_ENABLED, optionVars, sortVars, columnVars>>

(***************************************************************************)
(* Option<T> and Result<T, Misfire>                                        *)
(***************************************************************************)
None == [some |-> FALSE]
Some(x) == [some |-> TRUE, v |-> x]

Ok(x) == [ok |-> TRUE, val |-> x]
Err(e) == [ok |-> FALSE, err |-> e]

(***************************************************************************)
(* enum Misfire                                                            *)
(***************************************************************************)
InvalidOptions(fail) == [misfire |-> "InvalidOptions", fail |-> fail]
Help(text) == [misfire |-> "Help", text |-> text]
Version == [misfire |-> "Version"]
Conflict(a, b) == [misfire |-> "Conflict", a |-> a, b |-> b]
Useless(a, given, b) == [misfire |-> "Useless", a |-> a, given |-> given, b |-> b]
Useless2(a, b1, b2) == [misfire |-> "Useless2", a |-> a, b1 |-> b1, b2 |-> b2]
FailedParse(e) == [misfire |-> "FailedParse", e |-> e]

\* getopts::Fail, the failures opts.parse returns
UnrecognizedOption(s) == [fail |-> "UnrecognizedOption", opt |-> s]
OptionDuplicated(s) == [fail |-> "OptionDuplicated", opt |-> s]
ArgumentMissing(s) == [fail |-> "ArgumentMissing", opt |-> s]
UnexpectedArgument(s) == [fail |-> "UnexpectedArgument", opt |-> s]

(***************************************************************************)
(* Bounds of the model                                                     *)
(***************************************************************************)
\* how many distinct options one command line gives
MaxArgs == 3
\* how many distinct options a command line with a mistyped option gives
MaxOddArgs == 2
\* how many of its options are mistyped: typed twice, typed with "=value"
\* though a flag, or typed last without the word it takes
MaxOdd == 1

RECURSIVE SubsetsUpTo(_, _)
SubsetsUpTo(S, k) ==
    IF k = 0 THEN {{}}
    ELSE LET P == SubsetsUpTo(S, k - 1)
         IN  P \cup {T \cup {x} : T \in P, x \in S}

(***************************************************************************)
(* The option table registered in Options::getopts                         *)
(***************************************************************************)
OptFlags ==
    {"oneline", "all", "binary", "bytes", "list-dirs", "group", "grid",
     "group-directories-first", "header", "links", "inode", "long",
     "modified", "reverse", "recurse", "blocks", "tree", "accessed",
     "created", "across", "version", "help"}

OptOpts == {"level", "sort", "time"}

\* the options this build registers: git and extended only when compiled in
Registered ==
    OptFlags \cup OptOpts
        \cup (IF feature_git THEN {"git"} ELSE {})
        \cup (IF xattr_ENABLED THEN {"extended"} ELSE {})

\* opts.optflag(short, long, desc) and opts.optopt(short, long, desc, hint):
\* one row of the table, the description as its words
optflag(short, long, desc) ==
    [short |-> short, long |-> long, desc |-> desc, hint |-> "", hasarg |-> "No"]
optopt(short, long, desc, hint) ==
    [short |-> short, long |-> long, desc |-> desc, hint |-> hint, hasarg |-> "Yes"]

\* the table in registration order, of a build with or without git and
\* extended attributes
opts_of(git, xattr) ==
    << optflag("1", "oneline",
            <<"display", "one", "entry", "per", "line">>),
       optflag("a", "all",
            <<"show", "dot-files">>),
       optflag("b", "binary",
            <<"use", "binary", "prefixes", "in", "file", "sizes">>),
       optflag("B", "bytes",
            <<"list", "file", "sizes", "in", "bytes,", "without", "prefixes">>),
       optflag("d", "list-dirs",
            <<"list", "directories", "as", "regular", "files">>),
       optflag("g", "group",
            <<"show", "group", "as", "well", "as", "user">>),
       optflag("G", "grid",
            <<"display", "entries", "in", "a", "grid", "view", "(default)">>),
       optflag("", "group-directories-first",
            <<"list", "directories", "before", "other", "files">>),
       optflag("h", "header",
            <<"show", "a", "header", "row", "at", "the", "top">>),
       optflag("H", "links",
            <<"show", "number", "of", "hard", "links">>),
       optflag("i", "inode",
            <<"show", "each", "file's", "inode", "number">>),
       optflag("l", "long",
            <<"display", "extended", "details", "and", "attributes">>),
       optopt("L", "level",
           <<"maximum", "depth", "of", "recursion">>, "DEPTH"),
       optflag("m", "modified",
            <<"display", "timestamp", "of", "most", "recent", "modification">>),
       optflag("r", "reverse",
            <<"reverse", "order", "of", "files">>),
       optflag("R", "recurse",
            <<"recurse", "into", "directories">>),
       optopt("s", "sort",
           <<"field", "to", "sort", "by">>, "WORD"),
       optflag("S", "blocks",
            <<"show", "number", "of", "file", "system", "blocks">>),
       optopt("t", "time",
           <<"which", "timestamp", "to", "show", "for", "a", "file">>, "WORD"),
       optflag("T", "tree",
            <<"recurse", "into", "subdirectories", "in", "a", "tree", "view">>),
       optflag("u", "accessed",
            <<"display", "timestamp", "of", "last", "access", "for", "a", "file">>),
       optflag("U", "created",
            <<"display", "timestamp", "of", "creation", "for", "a", "file">>),
       optflag("x", "across",
            <<"sort", "multi-column", "view", "entries", "across">>),
       optflag("", "version",
            <<"display", "version", "of", "exa">>),
       optflag("?", "help",
            <<"show", "list", "of", "command-line", "options">>) >>
    \o (IF git
        THEN << optflag("", "git",
            <<"show", "git", "status">>) >>
        ELSE <<>>)
    \o (IF xattr
        THEN << optflag("@", "extended",
            <<"display", "extended", "attribute", "keys", "and", "sizes", "in", "long", "(-l)", "output">>) >>
        ELSE <<>>)

\* the table of this build
opts == opts_of(feature_git, xattr_ENABLED)

\* what a user may type: every option of any build, and one no build knows
Typable == OptFlags \cup OptOpts \cup {"git", "extended", "bogus"}

\* the options View::deduce's long branch and its grid sub-decision weigh
\* against one another; command lines give these in every combination
ViewOptions ==
    {"long", "grid", "across", "oneline", "binary", "bytes", "time",
     "created", "tree", "level"}

\* the options Columns::deduce weighs against one another under long: the
\* two size flags, the time word and the three timestamp flags
ColumnOptions ==
    {"long", "binary", "bytes", "time", "modified", "created", "accessed"}

\* the option sets of the model: any few options, any of the view's, or
\* any of the columns'
GivenSets ==
    SubsetsUpTo(Typable, MaxArgs) \cup SUBSET ViewOptions \cup SUBSET ColumnOptions

\* words given to --level, as character sequences: numbers, a signed
\* number, a word that is no number, and 2^64
LevelWords ==
    { <<"5">>, <<"6", "9", "1", "0", "5">>, <<"x">>, <<"+", "5">>,
      <<"1", "8", "4", "4", "6", "7", "4", "4", "0", "7",
        "3", "7", "0", "9", "5", "5", "1", "6", "1", "6">> }
SortWords == {"name", "filename", "size", "filesize", "ext", "extension",
              "mod", "modified", "acc", "accessed", "cr", "created",
              "none", "inode", "colour"}
TimeWords == {"mod", "modified", "acc", "accessed", "cr", "created", "changed"}
FreeArgs == { <<>>, <<"me">> }
Widths == {80}

\* how the options of a command line are typed: `twice` those typed a
\* second time, `valued` those typed as --name=value without taking a word,
\* `wordless` the option taking a word that is typed last, without one,
\* `by_short` whether that one is typed by its short name (-L for --level)
Typed(twice, valued, wordless, by_short) ==
    [twice |-> twice, valued |-> valued, wordless |-> wordless,
     by_short |-> by_short]
Plain == Typed({}, {}, None, FALSE)

\* the options that the command lines of the model mistype: flags, the
\* options taking a word, one only some builds register, one none does
OddOptions ==
    {"help", "version", "long", "level", "sort", "time", "git", "bogus"}

\* the ways of typing a set of options, every option typed once as itself
\* or, on a short command line of those options, up to MaxOdd of them
\* mistyped
Typings(given) ==
    IF ~(given \subseteq OddOptions) \/ Cardinality(given) > MaxOddArgs THEN {Plain}
    ELSE {t \in [twice : SUBSET given,
                  valued : SUBSET (given \ OptOpts),
                  wordless : {None} \cup {Some(o) : o \in given \cap OptOpts},
                  by_short : BOOLEAN] :
            /\ t.by_short => t.wordless.some
            /\ Cardinality(t.twice) + Cardinality(t.valued)
                   + (IF t.wordless.some THEN 1 ELSE 0) <= MaxOdd}

\* the command lines of the model: which options are given, how they are
\* typed, with which words
ArgsOf(given, typed, level, sort, time, free) ==
    [given |-> given, twice |-> typed.twice, valued |-> typed.valued,
     wordless |-> typed.wordless, by_short |-> typed.by_short,
     level |-> level, sort |-> sort, time |-> time, free |-> free]

\* the words an option can carry: none when it is not given, or is typed
\* once only and then last, without its word
WordsFor(given, typed, name, words) ==
    IF name \in given /\ (typed.wordless = Some(name) => name \in typed.twice)
    THEN {Some(w) : w \in words}
    ELSE {None}

(***************************************************************************)
(* getopts::Matches                                                        *)
(***************************************************************************)
opt_str(m, name) ==
    CASE name = "level" -> m.level
      [] name = "sort"  -> m.sort
      [] name = "time"  -> m.time
      [] OTHER          -> None

opt_present(m, name) == name \in m.given

\* the first option of the table that is in S
FirstRegistered(S) ==
    opts[CHOOSE i \in DOMAIN opts :
           /\ opts[i].long \in S
           /\ \A j \in DOMAIN opts : opts[j].long \in S => i <= j].long

\* the short name the table gives an option
short_name(long_name) ==
    opts[CHOOSE i \in DOMAIN opts : opts[i].long = long_name].short

\* opts.parse(args). Walking the arguments, the parse stops at the first
\* option this build did not register and at the first flag typed with a
\* value (which one comes first depends on the order they were typed),
\* then at the option typed last without its word, which it names as it
\* was typed; after the walk it refuses the first option of the table that
\* was typed more than once, by its long name.
opts_parse(a) ==
    LET stopped ==
            {Err(UnrecognizedOption(f)) : f \in a.given \ Registered}
                \cup {Err(UnexpectedArgument(f)) : f \in a.valued \cap Registered}
    IN  IF stopped # {} THEN stopped
        ELSE IF a.wordless.some
        THEN {Err(ArgumentMissing(IF a.by_short THEN short_name(a.wordless.v)
                                  ELSE a.wordless.v))}
        ELSE IF a.twice # {} THEN {Err(OptionDuplicated(FirstRegistered(a.twice)))}
        ELSE {Ok(a)}

Brief == "Usage:\n  exa [options] [files...]"

RECURSIVE Spaces(_)
Spaces(n) == IF n <= 0 THEN "" ELSE " " \o Spaces(n - 1)

\* the words of a description laid out in rows of at most lim characters
RECURSIVE each_split_within(_, _, _, _)
each_split_within(words, lim, row, rows) ==
    IF words = <<>> THEN (IF row = "" THEN rows ELSE Append(rows, row))
    ELSE LET w == Head(words)
         IN  IF row = "" THEN each_split_within(Tail(words), lim, w, rows)
             ELSE IF Len(row) + 1 + Len(w) <= lim
             THEN each_split_within(Tail(words), lim, row \o " " \o w, rows)
             ELSE each_split_within(Tail(words), lim, w, Append(rows, row))

RECURSIVE join(_, _)
join(rows, sep) ==
    IF rows = <<>> THEN ""
    ELSE IF Len(rows) = 1 THEN rows[1]
    ELSE rows[1] \o sep \o join(Tail(rows), sep)

\* one row of the usage text: the short name, the long name and the hint in
\* a column of 24 characters (the description on a line of its own when
\* they do not fit), then the description in rows of 54
usage_row(o) ==
    LET desc_sep == "\n" \o Spaces(24)
        short == IF o.short = "" THEN "    " ELSE "-" \o o.short \o ", "
        row == "    " \o short \o "--" \o o.long \o " " \o o.hint
    IN  row \o (IF Len(row) < 24 THEN Spaces(24 - Len(row)) ELSE desc_sep)
            \o join(each_split_within(o.desc, 54, "", <<>>), desc_sep)

\* what opts.usage puts after the brief: one row for each option of the table
usage_options(registered) ==
    "\n\nOptions:\n"
        \o join([i \in DOMAIN registered |-> usage_row(registered[i])], "\n") \o "\n"

\* that text for each of the four builds, laid out once
usage_texts ==
    << usage_options(opts_of(FALSE, FALSE)), usage_options(opts_of(FALSE, TRUE)),
       usage_options(opts_of(TRUE, FALSE)), usage_options(opts_of(TRUE, TRUE)) >>

\* opts.usage(brief): the brief, then one row for each registered option
opts_usage(brief) ==
    brief \o usage_texts[(IF feature_git THEN 2 ELSE 0)
                            + (IF xattr_ENABLED THEN 1 ELSE 0) + 1]

(***************************************************************************)
(* SortField                                                               *)
(***************************************************************************)
SortField_default == "Name"

SortField_none(field) == InvalidOptions(UnrecognizedOption("--sort " \o field))

SortField_from_word(word) ==
    CASE word \in {"name", "filename"}  -> Ok("Name")
      [] word \in {"size", "filesize"}  -> Ok("Size")
      [] word \in {"ext", "extension"}  -> Ok("Extension")
      [] word \in {"mod", "modified"}   -> Ok("ModifiedDate")
      [] word \in {"acc", "accessed"}   -> Ok("AccessedDate")
      [] word \in {"cr", "created"}     -> Ok("CreatedDate")
      [] word = "none"                  -> Ok("Unsorted")
      [] word = "inode"                 -> Ok("FileInode")
      [] OTHER                          -> Err(SortField_none(word))

(***************************************************************************)
(* SizeFormat                                                              *)
(***************************************************************************)
\* a deduce that lets binary win over bytes instead of refusing the pair
SizeFormat_deduce_binary_wins(m) ==
    IF opt_present(m, "binary") THEN Ok("BinaryBytes")
    ELSE IF opt_present(m, "bytes") THEN Ok("JustBytes")
    ELSE Ok("DecimalBytes")

SizeFormat_deduce(m) ==
    LET binary == opt_present(m, "binary")
        bytes  == opt_present(m, "bytes")
    IN  CASE binary /\ bytes   -> Err(Conflict("binary", "bytes"))
          [] binary /\ ~bytes  -> Ok("BinaryBytes")
          [] ~binary /\ bytes  -> Ok("JustBytes")
          [] OTHER             -> Ok("DecimalBytes")

(***************************************************************************)
(* TimeTypes                                                               *)
(***************************************************************************)
TimeTypes(accessed, modified, created) ==
    [accessed |-> accessed, modified |-> modified, created |-> created]

TimeTypes_default == TimeTypes(FALSE, TRUE, FALSE)

TimeTypes_none(field) == InvalidOptions(UnrecognizedOption("--time " \o field))

TimeTypes_word(word) ==
    CASE word \in {"mod", "modified"} -> Ok(TimeTypes(FALSE, TRUE, FALSE))
      [] word \in {"acc", "accessed"} -> Ok(TimeTypes(TRUE, FALSE, FALSE))
      [] word \in {"cr", "created"}   -> Ok(TimeTypes(FALSE, FALSE, TRUE))
      [] OTHER                        -> Err(TimeTypes_none(word))

\* a deduce that looks at created before modified
TimeTypes_deduce_created_first(m) ==
    LET possible_word == opt_str(m, "time")
        modified == opt_present(m, "modified")
        created  == opt_present(m, "created")
        accessed == opt_present(m, "accessed")
    IN  IF possible_word.some
        THEN IF created THEN Err(Useless("created", TRUE, "time"))
             ELSE IF modified THEN Err(Useless("modified", TRUE, "time"))
             ELSE IF accessed THEN Err(Useless("accessed", TRUE, "time"))
             ELSE TimeTypes_word(possible_word.v)
        ELSE IF modified \/ created \/ accessed
             THEN Ok(TimeTypes(accessed, modified, created))
             ELSE Ok(TimeTypes_default)

TimeTypes_deduce(m) ==
    LET possible_word == opt_str(m, "time")
        modified == opt_present(m, "modified")
        created  == opt_present(m, "created")
        accessed == opt_present(m, "accessed")
    IN  IF possible_word.some
        THEN IF modified THEN Err(Useless("modified", TRUE, "time"))
             ELSE IF created THEN Err(Useless("created", TRUE, "time"))
             ELSE IF accessed THEN Err(Useless("accessed", TRUE, "time"))
             ELSE TimeTypes_word(possible_word.v)
        ELSE IF modified \/ created \/ accessed
             THEN Ok(TimeTypes(accessed, modified, created))
             ELSE Ok(TimeTypes_default)

(***************************************************************************)
(* RecurseOptions and DirAction                                            *)
(***************************************************************************)
Digits == {"0", "1", "2", "3", "4", "5", "6", "7", "8", "9"}

DigitValue(c) ==
    CASE c = "0" -> 0 [] c = "1" -> 1 [] c = "2" -> 2 [] c = "3" -> 3
      [] c = "4" -> 4 [] c = "5" -> 5 [] c = "6" -> 6 [] c = "7" -> 7
      [] c = "8" -> 8 [] c = "9" -> 9

RECURSIVE DigitsValue(_)
DigitsValue(s) ==
    IF s = <<>> THEN 0
    ELSE DigitsValue(SubSeq(s, 1, Len(s) - 1)) * 10 + DigitValue(s[Len(s)])

\* usize::MAX of a 64-bit target, 2^64 - 1, as its digits
usize_MAX ==
    <<"1", "8", "4", "4", "6", "7", "4", "4", "0", "7",
       "3", "7", "0", "9", "5", "5", "1", "6", "1", "5">>

RECURSIVE strip_zeros(_)
strip_zeros(s) ==
    IF s # <<>> /\ Head(s) = "0" THEN strip_zeros(Tail(s)) ELSE s

\* of two digit runs of one length, whether a is the greater number
RECURSIVE digits_gt(_, _)
digits_gt(a, b) ==
    IF a = <<>> THEN FALSE
    ELSE IF DigitValue(Head(a)) # DigitValue(Head(b))
    THEN DigitValue(Head(a)) > DigitValue(Head(b))
    ELSE digits_gt(Tail(a), Tail(b))

\* the checked multiply-and-add overflows on reaching the end of this run
overflows(run) ==
    LET n == strip_zeros(run)
    IN  \/ Len(n) > Len(usize_MAX)
        \/ Len(n) = Len(usize_MAX) /\ digits_gt(n, usize_MAX)

\* level.parse::<usize>() on a word given as its characters: one leading
\* "+" is dropped, then the digits are taken left to right, stopping at
\* the first that overflows the usize or is no digit
str_parse(s) ==
    IF s = <<>> THEN Err("Empty")
    ELSE LET digits == IF Head(s) = "+" THEN Tail(s) ELSE s
             stop == IF \E i \in DOMAIN digits : digits[i] \notin Digits
                     THEN CHOOSE i \in DOMAIN digits :
                            /\ digits[i] \notin Digits
                            /\ \A j \in 1..(i - 1) : digits[j] \in Digits
                     ELSE Len(digits) + 1
         IN  IF digits = <<>> THEN Err("InvalidDigit")
             ELSE IF overflows(SubSeq(digits, 1, stop - 1)) THEN Err("PosOverflow")
             ELSE IF stop <= Len(digits) THEN Err("InvalidDigit")
             ELSE Ok(DigitsValue(digits))

RecurseOptions(tree, max_depth) == [tree |-> tree, max_depth |-> max_depth]

RecurseOptions_deduce(m, tree) ==
    LET level == opt_str(m, "level")
    IN  IF level.some
        THEN LET l == str_parse(level.v)
             IN  IF l.ok THEN Ok(RecurseOptions(tree, Some(l.val)))
                 ELSE Err(FailedParse(l.err))
        ELSE Ok(RecurseOptions(tree, None))

AsFile == [dir_action |-> "AsFile"]
List == [dir_action |-> "List"]
Recurse(recurse_opts) == [dir_action |-> "Recurse", opts |-> recurse_opts]

\* try!(RecurseOptions::deduce(..)) wrapped in DirAction::Recurse
RecurseWith(m, tree) ==
    LET r == RecurseOptions_deduce(m, tree)
    IN  IF r.ok THEN Ok(Recurse(r.val)) ELSE r

\* a deduce whose two Conflict rows are in the other order
DirAction_deduce_tree_row_first(m) ==
    LET recurse == opt_present(m, "recurse")
        list    == opt_present(m, "list-dirs")
        tree    == opt_present(m, "tree")
    IN  CASE list /\ tree                -> Err(Conflict("tree", "list-dirs"))
          [] recurse /\ list /\ ~tree    -> Err(Conflict("recurse", "list-dirs"))
          [] recurse /\ ~list /\ ~tree   -> RecurseWith(m, FALSE)
          [] ~list /\ tree               -> RecurseWith(m, TRUE)
          [] ~recurse /\ list /\ ~tree   -> Ok(AsFile)
          [] OTHER                       -> Ok(List)

DirAction_deduce(m) ==
    LET recurse == opt_present(m, "recurse")
        list    == opt_present(m, "list-dirs")
        tree    == opt_present(m, "tree")
    IN  CASE recurse /\ list             -> Err(Conflict("recurse", "list-dirs"))
          [] ~recurse /\ list /\ tree    -> Err(Conflict("tree", "list-dirs"))
          [] recurse /\ ~list /\ ~tree   -> RecurseWith(m, FALSE)
          [] ~list /\ tree               -> RecurseWith(m, TRUE)
          [] ~recurse /\ list /\ ~tree   -> Ok(AsFile)
          [] OTHER                       -> Ok(List)

\* a recurse_options that forgets the dir action
recurse_options_none(da) == None

recurse_options(da) ==
    IF da.dir_action = "Recurse" THEN Some(da.opts) ELSE None

(***************************************************************************)
(* Columns                                                                 *)
(***************************************************************************)
Columns_deduce(m) ==
    LET size_format == SizeFormat_deduce(m)
        time_types  == TimeTypes_deduce(m)
    IN  IF ~size_format.ok THEN size_format
        ELSE IF ~time_types.ok THEN time_types
        ELSE Ok([size_format |-> size_format.val,
                 time_types  |-> time_types.val,
                 inode  |-> opt_present(m, "inode"),
                 links  |-> opt_present(m, "links"),
                 blocks |-> opt_present(m, "blocks"),
                 group  |-> opt_present(m, "group"),
                 git    |-> feature_git /\ opt_present(m, "git")])

(***************************************************************************)
(* View                                                                    *)
(***************************************************************************)
Colours_for_terminal == IF dimensions.some THEN "colourful" ELSE "plain"

Details(columns, header, recurse, filter, xattr, colours) ==
    [columns |-> columns, header |-> header, recurse |-> recurse,
     filter |-> filter, xattr |-> xattr, colours |-> colours]
Grid(across, console_width, colours) ==
    [across |-> across, console_width |-> console_width, colours |-> colours]
Lines(colours) == [colours |-> colours]

View_Details(d) == [view |-> "Details", details |-> d]
View_Grid(g) == [view |-> "Grid", grid |-> g]
View_GridDetails(g, d) == [view |-> "GridDetails", grid |-> g, details |-> d]
View_Lines(l) == [view |-> "Lines", lines |-> l]

\* the closure with its two flag checks in the other order
long_oneline_first(m, filter, da) ==
    IF opt_present(m, "oneline")
    THEN Err(Useless("oneline", TRUE, "long"))
    ELSE IF opt_present(m, "across") /\ ~opt_present(m, "grid")
    THEN Err(Useless("across", TRUE, "long"))
    ELSE LET columns == Columns_deduce(m)
         IN  IF ~columns.ok THEN columns
             ELSE Ok(Details(Some(columns.val),
                             opt_present(m, "header"),
                             recurse_options(da),
                             filter,
                             xattr_ENABLED /\ opt_present(m, "extended"),
                             Colours_for_terminal))

\* the closure `long` of View::deduce
long(m, filter, da) ==
    IF opt_present(m, "across") /\ ~opt_present(m, "grid")
    THEN Err(Useless("across", TRUE, "long"))
    ELSE IF opt_present(m, "oneline")
    THEN Err(Useless("oneline", TRUE, "long"))
    ELSE LET columns == Columns_deduce(m)
         IN  IF ~columns.ok THEN columns
             ELSE Ok(Details(Some(columns.val),
                             opt_present(m, "header"),
                             recurse_options(da),
                             filter,
                             xattr_ENABLED /\ opt_present(m, "extended"),
                             Colours_for_terminal))

\* the options the loop of long_options_scan walks, in its order
LongOnly == <<"binary", "bytes", "inode", "links", "header", "blocks", "time", "group">>

\* a scan that checks level before the long-only options
long_options_scan_level_first(m) ==
    LET hits == {i \in DOMAIN LongOnly : opt_present(m, LongOnly[i])}
    IN  IF opt_present(m, "level") /\ ~opt_present(m, "recurse") /\ ~opt_present(m, "tree")
        THEN Err(Useless2("level", "recurse", "tree"))
        ELSE IF hits # {}
        THEN Err(Useless(LongOnly[CHOOSE i \in hits : \A j \in hits : i <= j], FALSE, "long"))
        ELSE IF feature_git /\ opt_present(m, "git")
        THEN Err(Useless("git", FALSE, "long"))
        ELSE IF xattr_ENABLED /\ opt_present(m, "extended")
        THEN Err(Useless("extended", FALSE, "long"))
        ELSE Ok(<<>>)

\* the closure `long_options_scan` of View::deduce
long_options_scan(m) ==
    LET hits == {i \in DOMAIN LongOnly : opt_present(m, LongOnly[i])}
    IN  IF hits # {}
        THEN Err(Useless(LongOnly[CHOOSE i \in hits : \A j \in hits : i <= j], FALSE, "long"))
        ELSE IF feature_git /\ opt_present(m, "git")
        THEN Err(Useless("git", FALSE, "long"))
        ELSE IF opt_present(m, "level") /\ ~opt_present(m, "recurse") /\ ~opt_present(m, "tree")
        THEN Err(Useless2("level", "recurse", "tree"))
        ELSE IF xattr_ENABLED /\ opt_present(m, "extended")
        THEN Err(Useless("extended", FALSE, "long"))
        ELSE Ok(<<>>)

\* the closure with tree looked at before oneline
other_options_scan_tree_first(m, filter, da) ==
    IF dimensions.some
    THEN LET width == dimensions.v[1]
         IN  IF opt_present(m, "tree")
             THEN Ok(View_Details(Details(None, FALSE, recurse_options(da), filter,
                                          FALSE, Colours_for_terminal)))
             ELSE IF opt_present(m, "oneline")
             THEN IF opt_present(m, "across")
                  THEN Err(Useless("across", TRUE, "oneline"))
                  ELSE Ok(View_Lines(Lines("colourful")))
             ELSE Ok(View_Grid(Grid(opt_present(m, "across"), width, "colourful")))
    ELSE Ok(View_Lines(Lines("plain")))

\* the closure `other_options_scan` of View::deduce
other_options_scan(m, filter, da) ==
    IF dimensions.some
    THEN LET width == dimensions.v[1]
         IN  IF opt_present(m, "oneline")
             THEN IF opt_present(m, "across")
                  THEN Err(Useless("across", TRUE, "oneline"))
                  ELSE Ok(View_Lines(Lines("colourful")))
             ELSE IF opt_present(m, "tree")
             THEN Ok(View_Details(Details(None, FALSE, recurse_options(da), filter,
                                          FALSE, Colours_for_terminal)))
             ELSE Ok(View_Grid(Grid(opt_present(m, "across"), width, "colourful")))
    ELSE Ok(View_Lines(Lines("plain")))

View_deduce(m, filter, da) ==
    IF opt_present(m, "long")
    THEN LET long_options == long(m, filter, da)
         IN  IF ~long_options.ok THEN long_options
             ELSE IF opt_present(m, "grid")
             THEN LET other == other_options_scan(m, filter, da)
                  IN  IF other.ok /\ other.val.view = "Grid"
                      THEN Ok(View_GridDetails(other.val.grid, long_options.val))
                      ELSE other
             ELSE Ok(View_Details(long_options.val))
    ELSE LET scan == long_options_scan(m)
         IN  IF ~scan.ok THEN scan
             ELSE other_options_scan(m, filter, da)

(***************************************************************************)
(* Options::getopts                                                        *)
(***************************************************************************)
\* the short-circuits with version looked at before help
version_or_help(m) ==
    IF opt_present(m, "version") THEN Some(Version)
    ELSE IF opt_present(m, "help") THEN Some(Help(opts_usage(Brief)))
    ELSE None

\* the help and version short-circuits
help_or_version(m) ==
    IF opt_present(m, "help") THEN Some(Help(opts_usage(Brief)))
    ELSE IF opt_present(m, "version") THEN Some(Version)
    ELSE None

sort_field_of(m) ==
    LET word == opt_str(m, "sort")
    IN  IF word.some THEN SortField_from_word(word.v) ELSE Ok(SortField_default)

FileFilter(m, sort_field) ==
    [list_dirs_first |-> opt_present(m, "group-directories-first"),
     reverse         |-> opt_present(m, "reverse"),
     show_invisibles |-> opt_present(m, "all"),
     sort_field      |-> sort_field]

path_strs(m) == IF m.free = <<>> THEN <<".">> ELSE m.free

\* the locals of one run of getopts and what it returned
Frame(m, da, v, r) == [matches |-> m, dir_action |-> da, view |-> v, result |-> r]

\* the body of Options::getopts after opts.parse, `parsed` being its outcome
Options_getopts(parsed) ==
    IF ~parsed.ok
    THEN Frame(parsed, None, None, Err(InvalidOptions(parsed.err)))
    ELSE
    LET m  == parsed.val
        hv == help_or_version(m)
        sf == sort_field_of(m)
    IN  IF hv.some THEN Frame(parsed, None, None, Err(hv.v))
        ELSE IF ~sf.ok THEN Frame(parsed, None, None, sf)
        ELSE
        LET filter == FileFilter(m, sf.val)
            da     == DirAction_deduce(m)
        IN  IF ~da.ok THEN Frame(parsed, Some(da), None, da)
            ELSE
            LET v == View_deduce(m, filter, da.val)
            IN  IF ~v.ok THEN Frame(parsed, Some(da), Some(v), v)
                ELSE Frame(parsed, Some(da), Some(v),
                           Ok([options |-> [dir_action |-> da.val,
                                            view       |-> v.val,
                                            filter     |-> filter],
                               paths |-> path_strs(m)]))

(***************************************************************************)
(* std::cmp::Ordering and the comparisons compare_files uses               *)
(***************************************************************************)
cmp_int(a, b) == IF a < b THEN "Less" ELSE IF a > b THEN "Greater" ELSE "Equal"

\* bool::cmp: false < true
cmp_bool(a, b) == cmp_int(IF a THEN 1 ELSE 0, IF b THEN 1 ELSE 0)

\* the characters of the model's file names, with their code points
CharCode(c) ==
    CASE c = " " -> 32 [] c = "." -> 46
      [] c = "0" -> 48 [] c = "1" -> 49 [] c = "2" -> 50 [] c = "3" -> 51
      [] c = "4" -> 52 [] c = "5" -> 53 [] c = "6" -> 54 [] c = "7" -> 55
      [] c = "8" -> 56 [] c = "9" -> 57
      [] c = "a" -> 97 [] c = "b" -> 98 [] c = "c" -> 99

is_whitespace(c) == c = " "

\* String::cmp: lexicographic over the characters
RECURSIVE cmp_str(_, _)
cmp_str(a, b) ==
    IF a = <<>> /\ b = <<>> THEN "Equal"
    ELSE IF a = <<>> THEN "Less"
    ELSE IF b = <<>> THEN "Greater"
    ELSE LET c == cmp_int(CharCode(Head(a)), CharCode(Head(b)))
         IN  IF c # "Equal" THEN c ELSE cmp_str(Tail(a), Tail(b))

\* Option<String>::cmp: None before every Some
cmp_ext(a, b) ==
    IF ~a.some /\ ~b.some THEN "Equal"
    ELSE IF ~a.some THEN "Less"
    ELSE IF ~b.some THEN "Greater"
    ELSE cmp_str(a.v, b.v)

(***************************************************************************)
(* natord::compare: digit runs compare by value, whitespace is skipped     *)
(***************************************************************************)
\* the character at position i, if any
char_at(s, i) == IF i \in DOMAIN s THEN Some(s[i]) ELSE None
\* its digit value, if it is a digit
digit_at(s, i) == IF i \in DOMAIN s /\ s[i] \in Digits THEN Some(DigitValue(s[i])) ELSE None

RECURSIVE skip_whitespace(_, _)
skip_whitespace(s, i) ==
    IF i \in DOMAIN s /\ is_whitespace(s[i]) THEN skip_whitespace(s, i + 1) ELSE i

RECURSIVE natord_nondigits(_, _, _, _)
RECURSIVE natord_digits_left(_, _, _, _)
RECURSIVE natord_digits_right(_, _, _, _, _)

\* the loop 'digits_left: runs with a leading zero compare digit by digit
natord_digits_left(a, b, i, j) ==
    LET ll == digit_at(a, i)
        rr == digit_at(b, j)
    IN  CASE ll.some /\ rr.some ->
               IF ll.v # rr.v THEN cmp_int(ll.v, rr.v)
               ELSE natord_digits_left(a, b, i + 1, j + 1)
          [] ll.some /\ ~rr.some -> "Greater"
          [] ~ll.some /\ rr.some -> "Less"
          [] OTHER -> natord_nondigits(a, b, i, j)

\* the loop 'digits_right: the longer run wins, else the first difference
natord_digits_right(a, b, i, j, lastcmp) ==
    LET ll == digit_at(a, i)
        rr == digit_at(b, j)
    IN  CASE ll.some /\ rr.some ->
               natord_digits_right(a, b, i + 1, j + 1,
                   IF lastcmp = "Equal" THEN cmp_int(ll.v, rr.v) ELSE lastcmp)
          [] ll.some /\ ~rr.some -> "Greater"
          [] ~ll.some /\ rr.some -> "Less"
          [] OTHER -> IF lastcmp # "Equal" THEN lastcmp
                      ELSE natord_nondigits(a, b, i, j)

\* the loop 'nondigits, the characters at i and j being the ones just read
natord_nondigits(a, b, i, j) ==
    LET i2 == skip_whitespace(a, i)
        j2 == skip_whitespace(b, j)
        l  == char_at(a, i2)
        r  == char_at(b, j2)
        ll == digit_at(a, i2)
        rr == digit_at(b, j2)
    IN  CASE l.some /\ r.some ->
               IF ll.some /\ rr.some
               THEN IF ll.v = 0 \/ rr.v = 0
                    THEN IF ll.v # rr.v THEN cmp_int(ll.v, rr.v)
                         ELSE natord_digits_left(a, b, i2 + 1, j2 + 1)
                    ELSE natord_digits_right(a, b, i2 + 1, j2 + 1, cmp_int(ll.v, rr.v))
               ELSE LET c == cmp_int(CharCode(l.v), CharCode(r.v))
                    IN  IF c # "Equal" THEN c
                        ELSE natord_nondigits(a, b, i2 + 1, j2 + 1)
          [] l.some /\ ~r.some -> "Greater"
          [] ~l.some /\ r.some -> "Less"
          [] OTHER -> "Equal"

natord_compare(a, b) == natord_nondigits(a, b, 1, 1)

(***************************************************************************)
(* FileFilter: compare_files and sort_files                                *)
(***************************************************************************)
SortFields == {"Unsorted", "Name", "Extension", "Size", "FileInode",
               "ModifiedDate", "AccessedDate", "CreatedDate"}

compare_files(f, a, b) ==
    CASE f.sort_field = "Unsorted"     -> "Equal"
      [] f.sort_field = "Name"         -> natord_compare(a.name, b.name)
      [] f.sort_field = "Size"         -> cmp_int(a.len, b.len)
      [] f.sort_field = "FileInode"    -> cmp_int(a.ino, b.ino)
      [] f.sort_field = "ModifiedDate" -> cmp_int(a.mtime, b.mtime)
      [] f.sort_field = "AccessedDate" -> cmp_int(a.atime, b.atime)
      [] f.sort_field = "CreatedDate"  -> cmp_int(a.ctime, b.ctime)
      [] f.sort_field = "Extension"    ->
            LET order == cmp_ext(a.ext, b.ext)
            IN  IF order = "Equal" THEN natord_compare(a.name, b.name) ELSE order

\* a second-pass closure with its operands the other way round
compare_dirs_first_swapped(a, b) == cmp_bool(a.is_directory, b.is_directory)

\* the closure of the second pass: directories first
compare_dirs_first(a, b) == cmp_bool(b.is_directory, a.is_directory)

\* the closure handed to sort_by in the pass named
compare_in(pass, f, a, b) ==
    IF pass = "key" THEN compare_files(f, a, b) ELSE compare_dirs_first(a, b)

\* a step that also moves x left past a neighbour it is Equal to: not stable
RECURSIVE insert_past_equal(_, _, _, _)
insert_past_equal(pass, f, sorted, x) ==
    IF sorted # <<>> /\ compare_in(pass, f, x, sorted[Len(sorted)]) # "Greater"
    THEN Append(insert_past_equal(pass, f, SubSeq(sorted, 1, Len(sorted) - 1), x),
                sorted[Len(sorted)])
    ELSE Append(sorted, x)

\* one step of the stable sort: x moves left while it is Less than its neighbour
RECURSIVE insert(_, _, _, _)
insert(pass, f, sorted, x) ==
    IF sorted # <<>> /\ compare_in(pass, f, x, sorted[Len(sorted)]) = "Less"
    THEN Append(insert(pass, f, SubSeq(sorted, 1, Len(sorted) - 1), x), sorted[Len(sorted)])
    ELSE Append(sorted, x)

\* Vec::sort_by, a stable sort
RECURSIVE sort_by(_, _, _)
sort_by(pass, f, s) ==
    IF s = <<>> THEN <<>>
    ELSE insert(pass, f, sort_by(pass, f, SubSeq(s, 1, Len(s) - 1)), s[Len(s)])

\* Vec::reverse
reverse(s) == [i \in 1..Len(s) |-> s[Len(s) + 1 - i]]

\* the first two steps of sort_files: the key sort, then the reversal
sort_and_reverse(f, s) ==
    LET sorted == sort_by("key", f, s)
    IN  IF f.reverse THEN reverse(sorted) ELSE sorted

\* the last step of sort_files: the directories-first pass
dirs_first_pass(f, s) ==
    IF f.list_dirs_first THEN sort_by("dirs", f, s) ELSE s

sort_files(f, s) == dirs_first_pass(f, sort_and_reverse(f, s))

(***************************************************************************)
(* FileFilter::filter_files                                                *)
(***************************************************************************)
\* File::is_dotfile: the name begins with "."
is_dotfile(f) == f.name # <<>> /\ Head(f.name) = "."
is_not_dotfile(f) == ~is_dotfile(f)

\* files.retain(|f| !f.is_dotfile()) unless show_invisibles
filter_files(f, s) ==
    IF ~f.show_invisibles THEN SelectSeq(s, is_not_dotfile) ELSE s

(***************************************************************************)
(* Columns::for_dir                                                        *)
(***************************************************************************)
Column(kind) == [column |-> kind]
FileSize(size_format) == [column |-> "FileSize", size_format |-> size_format]
Timestamp(time_type) == [column |-> "Timestamp", time_type |-> time_type]

should_scan_for_git(c) == c.git

push_if(cond, column) == IF cond THEN <<column>> ELSE <<>>

\* the trailing git block of for_dir
git_column(c, d) ==
    push_if(feature_git /\ d.some /\ should_scan_for_git(c) /\ d.v, Column("GitStatus"))

\* the timestamp pushes with accessed before created
timestamp_columns_accessed_first(c) ==
    push_if(c.time_types.modified, Timestamp("FileModified"))
        \o push_if(c.time_types.accessed, Timestamp("FileAccessed"))
        \o push_if(c.time_types.created, Timestamp("FileCreated"))

\* the three timestamp pushes of for_dir
timestamp_columns(c) ==
    push_if(c.time_types.modified, Timestamp("FileModified"))
        \o push_if(c.time_types.created, Timestamp("FileCreated"))
        \o push_if(c.time_types.accessed, Timestamp("FileAccessed"))

for_dir(c, d) ==
    push_if(c.inode, Column("Inode"))
        \o <<Column("Permissions")>>
        \o push_if(c.links, Column("HardLinks"))
        \o <<FileSize(c.size_format)>>
        \o push_if(c.blocks, Column("Blocks"))
        \o <<Column("User")>>
        \o push_if(c.group, Column("Group"))
        \o timestamp_columns(c)
        \o git_column(c, d)

(***************************************************************************)
(* Bounded inputs of sort_files and for_dir                                *)
(***************************************************************************)
\* how many files one listing holds
MaxFiles == 3
\* how many times sort_files runs on the same list
MaxCalls == 3

File(name, ext, len, ino, mtime, atime, ctime, is_directory) ==
    [name |-> name, ext |-> ext, len |-> len, ino |-> ino, mtime |-> mtime,
     atime |-> atime, ctime |-> ctime, is_directory |-> is_directory]

\* the files of the model: digit runs in names ("a2", "a10"), shared
\* extensions, shared metadata values, directories, plain files, a dotfile
FileUniverse ==
    { File(<<"a", "1">>,      None,          2, 1, 1, 2, 1, FALSE),
      File(<<"b", "1">>,      None,          1, 2, 1, 1, 2, FALSE),
      File(<<"a", "1", "0">>, None,          1, 3, 2, 1, 1, TRUE),
      File(<<"a", "2">>,      None,          2, 4, 2, 2, 2, TRUE),
      File(<<"b", ".", "c">>, Some(<<"c">>), 1, 5, 1, 2, 2, FALSE),
      File(<<"a", ".", "c">>, Some(<<"c">>), 2, 6, 2, 1, 1, TRUE),
      File(<<".", "a">>,      Some(<<"a">>), 1, 7, 1, 1, 1, FALSE) }

RECURSIVE SeqsUpTo(_, _)
SeqsUpTo(S, n) ==
    IF n = 0 THEN {<<>>}
    ELSE LET P == SeqsUpTo(S, n - 1)
         IN  P \cup {Append(s, x) : s \in P, x \in S}

FileFilters ==
    [list_dirs_first : BOOLEAN, reverse : BOOLEAN, show_invisibles : BOOLEAN,
     sort_field : SortFields]

SizeFormats == {"DecimalBytes", "BinaryBytes", "JustBytes"}

ColumnsValues ==
    [size_format : SizeFormats,
     time_types : [accessed : BOOLEAN, modified : BOOLEAN, created : BOOLEAN],
     inode : BOOLEAN, links : BOOLEAN, blocks : BOOLEAN, group : BOOLEAN,
     git : BOOLEAN]

Columns_default ==
    [size_format |-> "DecimalBytes", time_types |-> TimeTypes_default,
     inode |-> FALSE, links |-> FALSE, blocks |-> FALSE, group |-> FALSE,
     git |-> FALSE]

FileFilter_default ==
    [list_dirs_first |-> FALSE, reverse |-> FALSE, show_invisibles |-> FALSE,
     sort_field |-> SortField_default]

NoArgs == ArgsOf({}, Plain, None, None, None, <<>>)

(***************************************************************************)
(* The parts of the state each specification leaves at rest                *)
(***************************************************************************)
OptionsIdle ==
    /\ xattr_ENABLED = FALSE
    /\ dimensions = None
    /\ args = NoArgs
    /\ pc = "idle"
    /\ matches = None
    /\ dir_action = None
    /\ view = None
    /\ result = None

SortIdle ==
    /\ file_filter = FileFilter_default
    /\ files = <<>>
    /\ before = <<>>
    /\ calls = 0

ColumnsIdle ==
    /\ self_columns = Columns_default
    /\ dir = None
    /\ table = None

(***************************************************************************)
(* Spec: one command line, one build, one terminal; then one call of       *)
(* Options::getopts.                                                       *)
(***************************************************************************)
Init ==
    /\ feature_git \in BOOLEAN
    /\ xattr_ENABLED \in BOOLEAN
    /\ dimensions \in {None} \cup {Some(<<w, 24>>) : w \in Widths}
    /\ \E given \in GivenSets :
         \E typed \in Typings(given) :
           \E level \in WordsFor(given, typed, "level", LevelWords),
              sort \in WordsFor(given, typed, "sort", SortWords),
              time \in WordsFor(given, typed, "time", TimeWords),
              free \in FreeArgs :
                args = ArgsOf(given, typed, level, sort, time, free)
    /\ pc = "start"
    /\ matches = None
    /\ dir_action = None
    /\ view = None
    /\ result = None
    /\ SortIdle
    /\ ColumnsIdle

Getopts ==
    /\ pc = "start"
    /\ \E parsed \in opts_parse(args) :
         LET f == Options_getopts(parsed)
         IN  /\ matches' = Some(f.matches)
             /\ dir_action' = f.dir_action
             /\ view' = f.view
             /\ result' = Some(f.result)
    /\ pc' = "done"
    /\ UNCHANGED <<feature_git, xattr_ENABLED, dimensions, args, sortVars, columnVars>>

Next == Getopts

Spec == Init /\ [][Next]_vars

(***************************************************************************)
(* SortSpec: one filter, one list of files; sort_files runs on the list,   *)
(* and again on its own output; filter_files runs on it at any time.       *)
(***************************************************************************)
SortInit ==
    /\ feature_git = FALSE
    /\ OptionsIdle
    /\ ColumnsIdle
    /\ file_filter \in FileFilters
    /\ files \in SeqsUpTo(FileUniverse, MaxFiles)
    /\ before = <<>>
    /\ calls = 0

SortFiles ==
    /\ calls < MaxCalls
    /\ before' = files
    /\ files' = sort_files(file_filter, files)
    /\ calls' = calls + 1
    /\ UNCHANGED <<feature_git, xattr_ENABLED, optionVars, file_filter, columnVars>>

\* filter_files on the list; the sort_files calls counted are those made
\* since
FilterFiles ==
    /\ before' = files
    /\ files' = filter_files(file_filter, files)
    /\ calls' = 0
    /\ UNCHANGED <<feature_git, xattr_ENABLED, optionVars, file_filter, columnVars>>

SortNext == SortFiles \/ FilterFiles

SortSpec == SortInit /\ [][SortNext]_vars

(***************************************************************************)
(* ColumnsSpec: one Columns value, one directory context; for_dir derives  *)
(* the columns.                                                            *)
(***************************************************************************)
ColumnsInit ==
    /\ feature_git \in BOOLEAN
    /\ OptionsIdle
    /\ SortIdle
    /\ self_columns \in ColumnsValues
    /\ dir \in {None, Some(TRUE), Some(FALSE)}
    /\ table = None

ForDir ==
    /\ ~table.some
    /\ table' = Some(for_dir(self_columns, dir))
    /\ UNCHANGED <<feature_git, xattr_ENABLED, optionVars, sortVars, self_columns, dir>>

ColumnsNext == ForDir

ColumnsSpec == ColumnsInit /\ [][ColumnsNext]_vars

(***************************************************************************)
(* Vocabulary of the properties, stated over the command line itself       *)
(***************************************************************************)
Done == pc = "done"
Given(o) == o \in args.given
Returned(r) == result = Some(r)

\* every option given is one this build registered, typed once and as
\* itself: opts.parse succeeds
ParseOk ==
    /\ args.given \subseteq Registered
    /\ args.twice = {} /\ args.valued = {} /\ ~args.wordless.some
NoHelpNoVersion == ~Given("help") /\ ~Given("version")
RecognisedSortWords ==
    {"name", "filename", "size", "filesize", "ext", "extension", "mod",
     "modified", "acc", "accessed", "cr", "created", "none", "inode"}
SortWordOk == args.sort.some => args.sort.v \in RecognisedSortWords
\* what a level word stands for: its number, or why it is none
LevelOf(w) ==
    CASE w = <<"5">> -> Ok(5)
      [] w = <<"+", "5">> -> Ok(5)
      [] w = <<"6", "9", "1", "0", "5">> -> Ok(69105)
      [] w = <<"x">> -> Err("InvalidDigit")
      [] OTHER -> Err("PosOverflow")
IsNumber(w) == LevelOf(w).ok

\* resolution gets as far as DirAction::deduce
ReachesDirAction == ParseOk /\ NoHelpNoVersion /\ SortWordOk
\* DirAction::deduce succeeds
DirActionOk ==
    /\ ~(Given("list-dirs") /\ (Given("recurse") \/ Given("tree")))
    /\ (Given("recurse") \/ Given("tree")) /\ args.level.some => IsNumber(args.level.v)
\* resolution gets as far as View::deduce
ReachesView == ReachesDirAction /\ DirActionOk
\* with long given, the closure long gets as far as Columns::deduce
ReachesColumns ==
    /\ ReachesView
    /\ Given("long")
    /\ ~(Given("across") /\ ~Given("grid"))
    /\ ~Given("oneline")

\* the first option of a list that is given
FirstGiven(order) ==
    order[CHOOSE i \in DOMAIN order :
            /\ Given(order[i])
            /\ \A j \in DOMAIN order : Given(order[j]) => i <= j]
AnyGiven(order) == \E i \in DOMAIN order : Given(order[i])

(***************************************************************************)
(* C1                                                                      *)
(***************************************************************************)
\* C1 as stated: whenever binary and bytes are both given, Options
\* resolution fails with Conflict("binary", "bytes"), whatever else is given.
C1_AsStated ==
    Done /\ Given("binary") /\ Given("bytes")
        => Returned(Err(Conflict("binary", "bytes")))

\* C1 amended: when binary and bytes are both given together with long, and
\* resolution reaches the column deduction (the options parse, neither help
\* nor version is given, the sort word is recognised, the dir action
\* resolves, across is not given without grid, oneline is not given),
\* resolution fails with Conflict("binary", "bytes").
C1_ConflictUnderLong ==
    Done /\ ReachesColumns /\ Given("binary") /\ Given("bytes")
        => Returned(Err(Conflict("binary", "bytes")))

C1_Witness ==
    /\ Done /\ ReachesColumns /\ Given("binary") /\ Given("bytes")
    /\ Returned(Err(Conflict("binary", "bytes")))

(***************************************************************************)
(* C2                                                                      *)
(***************************************************************************)
IsHelp(r) == ~r.ok /\ r.err.misfire = "Help" /\ r.err.text # ""

\* C2 as stated: whenever help is given, with whatever else (malformed
\* options included), resolution returns Misfire::Help with nonempty text.
C2_AsStated ==
    Done /\ Given("help") => IsHelp(result.v)

\* C2 amended: whenever help is given and the options parse, whatever else
\* is given (version, paths, conflicting options, unknown sort or time
\* words), resolution returns Misfire::Help with nonempty usage text.
C2_HelpWhenParsed ==
    Done /\ Given("help") /\ ParseOk => IsHelp(result.v)

C2_Witness ==
    /\ Done /\ Given("help") /\ Given("version") /\ Given("sort")
    /\ args.sort.v = "colour" /\ args.free # <<>>
    /\ IsHelp(result.v)

(***************************************************************************)
(* C3                                                                      *)
(***************************************************************************)
C3_Order == <<"binary", "bytes", "inode", "links", "header", "blocks", "time", "group", "git">>

\* C3: without long, once resolution reaches the view, any of binary,
\* bytes, inode, links, header, blocks, time, group, git fails with
\* Useless(f, false, "long"), f the first given in that order; this comes
\* before the level check and the extended check.
C3_LongOnlyFirst ==
    Done /\ ReachesView /\ ~Given("long") /\ AnyGiven(C3_Order)
        => Returned(Err(Useless(FirstGiven(C3_Order), FALSE, "long")))

C3_Witness ==
    /\ Done /\ ReachesView /\ ~Given("long")
    /\ Given("git") /\ Given("level") /\ Given("extended")
    /\ Returned(Err(Useless("git", FALSE, "long")))

(***************************************************************************)
(* C4                                                                      *)
(***************************************************************************)
\* C4: a level given with neither recurse nor tree never ends in a
\* resolved configuration.
C4_NoConfigFromUselessLevel ==
    Done /\ Given("level") /\ ~Given("recurse") /\ ~Given("tree")
        => ~result.v.ok

(***************************************************************************)
(* C5                                                                      *)
(***************************************************************************)
C5_Order == <<"modified", "created", "accessed">>

\* C5 as stated: whenever a time word is given with any of modified,
\* created, accessed, resolution fails with Useless(f, true, "time"), f the
\* first of the three that is given.
C5_AsStated ==
    Done /\ args.time.some /\ AnyGiven(C5_Order)
        => Returned(Err(Useless(FirstGiven(C5_Order), TRUE, "time")))

\* C5 amended: when long is given and resolution reaches the column
\* deduction with not both binary and bytes given, a time word given with
\* any of modified, created, accessed fails with Useless(f, true, "time"),
\* f the first of the three that is given, whether or not the time word is
\* a recognised one.
C5_UselessUnderLong ==
    Done /\ ReachesColumns /\ ~(Given("binary") /\ Given("bytes"))
         /\ args.time.some /\ AnyGiven(C5_Order)
        => Returned(Err(Useless(FirstGiven(C5_Order), TRUE, "time")))

\* modified and created both given, with accessed and a word that is not a
\* recognised one: modified is the one named
C5_Witness ==
    /\ Done /\ ReachesColumns /\ args.time = Some("changed")
    /\ Given("modified") /\ Given("created") /\ Given("accessed")
    /\ Returned(Err(Useless("modified", TRUE, "time")))

(***************************************************************************)
(* C6                                                                      *)
(***************************************************************************)
\* the long-absent validation passes: no long-only option, no level
\* without recurse or tree, no extended
LongAbsentChecksPass ==
    /\ ~Given("long")
    /\ ~AnyGiven(C3_Order)
    /\ ~(Given("level") /\ ~Given("recurse") /\ ~Given("tree"))
    /\ ~Given("extended")

\* C6: oneline with across, long absent and nothing failing earlier, fails
\* with Useless("across", true, "oneline") whether or not a terminal width
\* is available.
C6_AcrossUselessGivenOneline ==
    Done /\ ReachesView /\ LongAbsentChecksPass /\ Given("oneline") /\ Given("across")
        => Returned(Err(Useless("across", TRUE, "oneline")))

(***************************************************************************)
(* C7                                                                      *)
(***************************************************************************)
\* the Recurse rows: max_depth from level
C7_Recurse(tree) ==
    IF ~args.level.some THEN Ok(Recurse([tree |-> tree, max_depth |-> None]))
    ELSE IF IsNumber(args.level.v)
    THEN Ok(Recurse([tree |-> tree, max_depth |-> Some(LevelOf(args.level.v).val)]))
    ELSE Err(FailedParse(LevelOf(args.level.v).err))

\* the table of the claim, first matching row
C7_Table ==
    LET r == Given("recurse")
        l == Given("list-dirs")
        t == Given("tree")
    IN  IF r /\ l THEN Err(Conflict("recurse", "list-dirs"))
        ELSE IF l /\ t THEN Err(Conflict("tree", "list-dirs"))
        ELSE IF r /\ ~l /\ ~t THEN C7_Recurse(FALSE)
        ELSE IF t THEN C7_Recurse(TRUE)
        ELSE IF ~r /\ l THEN Ok(AsFile)
        ELSE Ok(List)

\* C7: DirAction resolution returns the first matching row of the table
\* for every combination of recurse, list-dirs and tree, a Recurse carrying
\* max_depth parsed from level; its failure is the failure of the whole
\* resolution, so recurse with list-dirs fails with
\* Conflict("recurse", "list-dirs"); its success is the dir_action of the
\* resolved Options.
C7_DirActionTable ==
    Done /\ ReachesDirAction
        => /\ dir_action = Some(C7_Table)
           /\ ~C7_Table.ok => Returned(C7_Table)
           /\ Given("recurse") /\ Given("list-dirs")
                => Returned(Err(Conflict("recurse", "list-dirs")))
           /\ result.v.ok => result.v.val.options.dir_action = C7_Table.val

C7_Witness ==
    /\ Done /\ ReachesDirAction
    /\ Given("recurse") /\ Given("list-dirs") /\ Given("tree")
    /\ Returned(Err(Conflict("recurse", "list-dirs")))

(***************************************************************************)
(* C8                                                                      *)
(***************************************************************************)
\* the place of a column in the fixed order
C8_Rank(c) ==
    CASE c.column = "Inode"       -> 1
      [] c.column = "Permissions" -> 2
      [] c.column = "HardLinks"   -> 3
      [] c.column = "FileSize"    -> 4
      [] c.column = "Blocks"      -> 5
      [] c.column = "User"        -> 6
      [] c.column = "Group"       -> 7
      [] c.column = "Timestamp" /\ c.time_type = "FileModified" -> 8
      [] c.column = "Timestamp" /\ c.time_type = "FileCreated"  -> 9
      [] c.column = "Timestamp" /\ c.time_type = "FileAccessed" -> 10
      [] c.column = "GitStatus"   -> 11

C8_Has(rank) == \E i \in DOMAIN table.v : C8_Rank(table.v[i]) = rank

\* C8: the derived columns follow the fixed order without duplicates;
\* Permissions, FileSize and User are always there; each optional column
\* is there iff its flag holds; GitStatus is there iff git is compiled in,
\* the git flag is set and the directory exists and has a repository.
C8_ColumnOrder ==
    table.some =>
        /\ \A i, j \in DOMAIN table.v : i < j => C8_Rank(table.v[i]) < C8_Rank(table.v[j])
        /\ C8_Has(2) /\ C8_Has(4) /\ C8_Has(6)
        /\ C8_Has(1) <=> self_columns.inode
        /\ C8_Has(3) <=> self_columns.links
        /\ C8_Has(5) <=> self_columns.blocks
        /\ C8_Has(7) <=> self_columns.group
        /\ C8_Has(8) <=> self_columns.time_types.modified
        /\ C8_Has(9) <=> self_columns.time_types.created
        /\ C8_Has(10) <=> self_columns.time_types.accessed
        /\ C8_Has(11) <=> (feature_git /\ self_columns.git /\ dir.some /\ dir.v)

C8_Witness ==
    /\ table.some /\ Len(table.v) = 11
    /\ self_columns.time_types = TimeTypes(TRUE, TRUE, TRUE)
    /\ C8_Has(11)

(***************************************************************************)
(* C9                                                                      *)
(***************************************************************************)
\* C9 as stated: sort_files applied to the output of sort_files under the
\* same filter leaves it as it is, for every filter and every list.
C9_AsStated ==
    calls >= 2 => files = before

\* two entries at different places that compare Equal under the sort key
C9_HasTie(s) ==
    \E i, j \in DOMAIN s : i # j /\ compare_files(file_filter, s[i], s[j]) = "Equal"

\* two different entries that compare Equal under the sort key and that
\* the directories-first pass does not part: list_dirs_first is unset, or
\* both are directories, or neither is
C9_HasTieInGroup(s) ==
    \E i, j \in DOMAIN s :
        /\ s[i] # s[j]
        /\ compare_files(file_filter, s[i], s[j]) = "Equal"
        /\ file_filter.list_dirs_first => s[i].is_directory = s[j].is_directory

\* no entry is in the list twice
C9_NoRepeat(s) == \A i, j \in DOMAIN s : s[i] = s[j] => i = j

\* C9 amended: sort_files applied to the output of sort_files under the
\* same filter, once or again, leaves it as it is whenever reverse is unset
\* or no two different entries of the list compare equal under the sort
\* key within one group (the whole list when list_dirs_first is unset, the
\* directories and the other files when it is set); with reverse set and
\* such a pair, it changes every list that holds no entry twice.
C9_IdempotentIffNoReversedTieInGroup ==
    calls >= 2 =>
        /\ ~(file_filter.reverse /\ C9_HasTieInGroup(before)) => files = before
        /\ file_filter.reverse /\ C9_HasTieInGroup(before) /\ C9_NoRepeat(before)
              => files # before

\* reverse set, a directory and a file of one size among three entries: a
\* tie the directories-first pass parts, and a third call leaves the list
C9_Witness ==
    /\ calls = 3 /\ files = before
    /\ file_filter.reverse /\ file_filter.list_dirs_first
    /\ file_filter.sort_field = "Size"
    /\ C9_HasTie(before) /\ ~C9_HasTieInGroup(before) /\ Len(files) = 3
    /\ files[1] # files[2] /\ files[2] # files[3] /\ files[1] # files[3]

(***************************************************************************)
(* C10                                                                     *)
(***************************************************************************)
C10_IsDir(f) == f.is_directory
C10_IsNotDir(f) == ~f.is_directory

\* C10: with list_dirs_first set, every directory of the output is before
\* every non-directory, and the directories among themselves, and the
\* non-directories among themselves, are in the order of the key-sorted
\* (and, with reverse, reversed) list.
C10_DirsFirstStable ==
    calls >= 1 /\ file_filter.list_dirs_first =>
        LET keyed == sort_and_reverse(file_filter, before)
        IN  /\ \A i, j \in DOMAIN files :
                  files[j].is_directory /\ ~files[i].is_directory => j < i
            /\ SelectSeq(files, C10_IsDir) = SelectSeq(keyed, C10_IsDir)
            /\ SelectSeq(files, C10_IsNotDir) = SelectSeq(keyed, C10_IsNotDir)

C10_Witness ==
    /\ calls = 1 /\ file_filter.list_dirs_first /\ file_filter.reverse
    /\ file_filter.sort_field = "Name"
    /\ Len(files) = 3 /\ files # before
    /\ files # sort_and_reverse(file_filter, before)
    /\ files[1].is_directory /\ files[2].is_directory /\ ~files[3].is_directory

(***************************************************************************)
(* Vocabulary of the view properties                                       *)
(***************************************************************************)
RecognisedTimeWords == {"mod", "modified", "acc", "accessed", "cr", "created"}

\* Columns::deduce succeeds: not both size flags, and a time word, if given,
\* is a recognised one given without modified, created, accessed
ColumnsOk ==
    /\ ~(Given("binary") /\ Given("bytes"))
    /\ args.time.some => ~AnyGiven(C5_Order) /\ args.time.v \in RecognisedTimeWords

\* the long-specific validation passes: the closure long returns a Details
LongChecksPass == ReachesColumns /\ ColumnsOk

\* the view of a resolved Options
ResolvedView == result.v.val.options.view
IsResolved == Done /\ result.v.ok

(***************************************************************************)
(* C11                                                                     *)
(***************************************************************************)
\* C11: with long and grid given and the long-specific validation passed,
\* the resolved view is GridDetails (the grid as wide as the terminal, the
\* Details with its column set) when a terminal width is available, Lines
\* when none is, or the sub-decision's error; nothing else.
C11_GridDetailsOrLines ==
    Done /\ LongChecksPass /\ Given("grid") =>
        \/ Returned(Err(Useless("across", TRUE, "oneline")))
        \/ /\ result.v.ok
           /\ IF dimensions.some
              THEN /\ ResolvedView.view = "GridDetails"
                   /\ ResolvedView.grid.console_width = dimensions.v[1]
                   /\ ResolvedView.details.columns.some
              ELSE ResolvedView.view = "Lines"

(***************************************************************************)
(* C12                                                                     *)
(***************************************************************************)
\* the recurse options of the dir action the command line resolves to
ExpectedRecurse ==
    IF C7_Table.val.dir_action = "Recurse" THEN Some(C7_Table.val.opts) ELSE None

ExpectedFilter ==
    [list_dirs_first |-> Given("group-directories-first"),
     reverse         |-> Given("reverse"),
     show_invisibles |-> Given("all"),
     sort_field      |-> result.v.val.options.filter.sort_field]

\* the base view of the claim's priority list, given as the claim gives it
C12_BaseView ==
    IF ~dimensions.some
    THEN [view |-> "Lines", lines |-> [colours |-> "plain"]]
    ELSE IF Given("oneline")
    THEN [view |-> "Lines", lines |-> [colours |-> "colourful"]]
    ELSE IF Given("tree")
    THEN [view |-> "Details",
          details |-> [columns |-> None, header |-> FALSE, xattr |-> FALSE,
                       recurse |-> ExpectedRecurse, filter |-> ExpectedFilter,
                       colours |-> "colourful"]]
    ELSE [view |-> "Grid",
          grid |-> [across |-> Given("across"), console_width |-> dimensions.v[1],
                    colours |-> "colourful"]]

\* C12 as stated: without long, the long-only, level and extended
\* validation passed, the view is the base view of the priority list: no
\* width -> Lines plain; width and oneline -> Lines colourful; width and
\* tree -> Details without columns; otherwise Grid.
C12_AsStated ==
    Done /\ ReachesView /\ LongAbsentChecksPass
        => result.v.ok /\ ResolvedView = C12_BaseView

\* C12 amended: the same priority list, except that with a terminal width,
\* oneline given with across fails with Useless("across", true, "oneline")
\* instead of resolving to Lines.
C12_BaseViewUnlessAcrossOneline ==
    Done /\ ReachesView /\ LongAbsentChecksPass =>
        IF dimensions.some /\ Given("oneline") /\ Given("across")
        THEN Returned(Err(Useless("across", TRUE, "oneline")))
        ELSE result.v.ok /\ ResolvedView = C12_BaseView

C12_Witness ==
    /\ Done /\ ReachesView /\ LongAbsentChecksPass
    /\ dimensions.some /\ Given("tree") /\ Given("across") /\ Given("grid")
    /\ Given("level") /\ ~Given("oneline")
    /\ result.v.ok /\ ResolvedView = C12_BaseView
    /\ ResolvedView.view = "Details" /\ ResolvedView.details.recurse.v.tree

(***************************************************************************)
(* C13                                                                     *)
(***************************************************************************)
\* what the long branch returns by the claim's rule order, when it fails
C13_FirstViolation ==
    IF Given("across") /\ ~Given("grid") THEN Some(Useless("across", TRUE, "long"))
    ELSE IF Given("oneline") THEN Some(Useless("oneline", TRUE, "long"))
    ELSE IF Given("binary") /\ Given("bytes") THEN Some(Conflict("binary", "bytes"))
    ELSE IF args.time.some /\ AnyGiven(C5_Order)
    THEN Some(Useless(FirstGiven(C5_Order), TRUE, "time"))
    ELSE IF args.time.some /\ args.time.v \notin RecognisedTimeWords
    THEN Some(InvalidOptions(UnrecognizedOption("--time " \o args.time.v)))
    ELSE None

\* C13: with long given, the first violated rule wins in the order across
\* without grid, oneline, binary with bytes, the time-word checks, and only
\* with none violated is a Details configuration built; the long-absent
\* checks (long-only options, level without recurse or tree, extended) are
\* not applied; and no view-level check runs before parsing, help, version,
\* the sort word and the dir action have succeeded.
C13_LongRuleOrder ==
    /\ Done /\ ReachesView /\ Given("long") =>
          IF C13_FirstViolation.some
          THEN Returned(Err(C13_FirstViolation.v))
          ELSE /\ result.v.ok
               /\ ~Given("grid")
                     => /\ ResolvedView.view = "Details"
                        /\ ResolvedView.details.columns.some
    /\ Done /\ ~ReachesView => view = None /\ ~result.v.ok

C13_Witness ==
    /\ Done /\ ReachesView /\ Given("long")
    /\ Given("oneline") /\ Given("binary") /\ Given("bytes")
    /\ args.time = Some("changed") /\ Given("created") /\ Given("level")
    /\ ~Given("tree") /\ ~Given("across")
    /\ Returned(Err(Useless("oneline", TRUE, "long")))

(***************************************************************************)
(* C14                                                                     *)
(***************************************************************************)
\* C14: in every resolved Options whose view is Details or GridDetails, the
\* details' filter is the Options' filter and the details' recurse is
\* Some exactly when dir_action is Recurse, with its tree and max_depth; a
\* Details view from the tree flag carries tree = true, and one from long
\* alone (neither recurse nor tree) carries no recurse options.
C14_DetailsConsistent ==
    IsResolved /\ ResolvedView.view \in {"Details", "GridDetails"} =>
        LET o == result.v.val.options
            d == o.view.details
        IN  /\ d.filter = o.filter
            /\ d.recurse.some <=> o.dir_action.dir_action = "Recurse"
            /\ d.recurse.some => d.recurse.v = o.dir_action.opts
            /\ Given("tree") => d.recurse.some /\ d.recurse.v.tree
            /\ ~Given("tree") /\ ~Given("recurse") => d.recurse = None

C14_Witness ==
    /\ IsResolved /\ ResolvedView.view = "Details"
    /\ ResolvedView.details.columns.some
    /\ Given("long") /\ Given("tree") /\ Given("level")
    /\ ResolvedView.details.recurse = Some([tree |-> TRUE, max_depth |-> Some(5)])
    /\ ResolvedView.details.filter = result.v.val.options.filter

====
